---- MODULE Spec2Model ----
(***************************************************************************)
(* Model of judge.py for Pen Testing (Code Jam 2020, round 3): the         *)
(* interactive judge RunCases with its helpers RNG, Shuffle and            *)
(* ReadValues.                                                             *)
(*                                                                         *)
(* Text is modelled as sequences of one-character strings, so that         *)
(* str.split, int(...) and str(...) are computed, not assumed.  Python's   *)
(* 0-based index i is the TLA+ index i + 1.                                *)
(*                                                                         *)
(* RNG.Next() is a SHA-256 digest: its value is any of RngOutputs.  Each   *)
(* call of Input() gives a line, EOFError or another failure.  int(s) is   *)
(* modelled for ASCII text.                                                *)
(*                                                                         *)
(* main() is modelled in its judging mode (index # -2).  The tables        *)
(* NUM_CASES and NEED_CORRECT hold 20000 and more cases of 15 pens; the    *)
(* model runs RunCases on the small configurations of Configs and keeps    *)
(* of the tables only which values of index they accept.  What main does   *)
(* when RunCases raises is part of the step that raises.  Writing to       *)
(* sys.stderr succeeds, as it did at line 352.                             *)
(*                                                                         *)
(* The tests of the file give two more specifications.  ReadValuesSpec     *)
(* calls ReadValues on a line, as TestReadValues does.  TestRunCasesSpec   *)
(* calls RunCases on a list of lines, as TestRunCases does, and then once  *)
(* more on the same list; there Input() and Output() work on the list and  *)
(* the storage of the call, and a digest is a function of the counter:     *)
(* the value drawn for a counter is kept and is drawn again for it.        *)
(***************************************************************************)
EXTENDS Integers, Sequences, FiniteSets, TLC

VARIABLES
  num_cases,     \* argument num_cases of RunCases
  n,             \* argument n of RunCases
  need_correct,  \* argument need_correct of RunCases
  seed,          \* argument seed of RunCases
  counter,       \* RNG.counter
  remaining,     \* remaining[i][j]: ink left in pen j of case i
  initial,       \* history: remaining as the shuffles left it
  i,             \* loop variable of "for i in range(num_cases)" (line 125)
  j,             \* loop variable of "for j in range(len(arr))" (line 62)
  num_rounds,    \* num_rounds
  moves,         \* the moves of the last line parsed in the round loop
  results,       \* the results of the last round answered
  guesses,       \* the guesses parsed at line 160
  correct,       \* correct
  output,        \* the last line handed to Output
  num_output,    \* how many lines were handed to Output
  pc,            \* position in RunCases
  outcome,       \* how RunCases ended: "success", "error" (Error), "wrong_answer"
  last_input,    \* history: what the last call of Input() gave: "line", "eof", "fail"
  found,         \* history: len(t) of the last call of ReadValues
  message,       \* the message of the exception raised
  index,         \* index of main: int(sys.argv[1])
  sentinel,      \* how many times main called ActuallyOutput(INVALID_OUTPUT)
  exit_status,   \* <<>> while main runs, then <<status>> of the process
  ones,          \* history: ones[i]: how many results SUCCESSFUL case i was given
  num_reads,     \* history: how many times Input() was called
  draws,         \* history: draws[i]: the values k of Shuffle(remaining[i], rng)
  test_line,     \* TestReadValues: argument line of the call of ReadValues
  test_num_tokens, \* TestReadValues: argument num_tokens of that call
  call,          \* 0: RunCases called by main (test_input is None);
                 \* 1, 2: the first and the second call made by a test
  test_input,    \* argument test_input of RunCases: the lines not yet read
  test_output_storage, \* argument test_output_storage of RunCases
  first_call,    \* history: what the first call of a test was given and gave
  digest         \* history: digest[c]: the value Next() gave for counter c

vars == <<num_cases, n, need_correct, seed, counter, remaining, initial, i, j,
          num_rounds, moves, results, guesses, correct, output, num_output,
          pc, outcome, last_input, found, message, index, sentinel,
          exit_status, ones, num_reads, draws, test_line, test_num_tokens,
          call, test_input, test_output_storage, first_call, digest>>

----------------------------------------------------------------------------
(* Bounds of the model. *)

MaxN == 3
MaxCases == 2
MaxItems == 4
MaxRngOut == 5

(* Program constants. *)

SUCCESSFUL == 1
NO_MORE_INK == 0
DID_NOT_WRITE == 0
MsgLimit == 100

----------------------------------------------------------------------------
(* Text: characters, str(int), int(str), str.split, ' '.join. *)

Digits == <<"0", "1", "2", "3", "4", "5", "6", "7", "8", "9">>

IsDigit(c) == \E d \in 1..10 : Digits[d] = c

DigitVal(c) == (CHOOSE d \in 1..10 : Digits[d] = c) - 1

IsSpace(c) == c \in {" ", "\t"}

RECURSIVE StrNat(_)
StrNat(v) == IF v < 10 THEN <<Digits[v + 1]>>
             ELSE Append(StrNat(v \div 10), Digits[(v % 10) + 1])

Str(v) == IF v < 0 THEN <<"-">> \o StrNat(-v) ELSE StrNat(v)

(* line.split(): the maximal runs of non-whitespace characters, in order *)
TokenStarts(line) ==
  { p \in 1..Len(line) :
      ~IsSpace(line[p]) /\ (p = 1 \/ IsSpace(line[p - 1])) }

TokenEnd(line, p) ==
  CHOOSE q \in p..Len(line) :
    /\ \A r \in p..q : ~IsSpace(line[r])
    /\ (q = Len(line) \/ IsSpace(line[q + 1]))

Split(line) ==
  LET starts == TokenStarts(line)
      nth(k) == CHOOSE p \in starts :
                  Cardinality({q \in starts : q <= p}) = k
  IN [k \in 1..Cardinality(starts) |->
        SubSeq(line, nth(k), TokenEnd(line, nth(k)))]

RECURSIVE Join(_, _)
Join(sep, parts) ==
  IF parts = <<>> THEN <<>>
  ELSE IF Len(parts) = 1 THEN parts[1]
  ELSE parts[1] \o sep \o Join(sep, Tail(parts))

(* faulty variant: the text is not cut *)
Truncate_None(s) == s

Truncate(s) == IF Len(s) > MsgLimit THEN SubSeq(s, 1, MsgLimit) ELSE s

(* int(s) for a whitespace-free token: an optional sign, then decimal     *)
(* digits, single underscores allowed between digits.                     *)
Unsigned(s) == IF s # <<>> /\ s[1] \in {"+", "-"} THEN Tail(s) ELSE s

IsIntLiteral(s) ==
  LET b == Unsigned(s) IN
    /\ b # <<>>
    /\ IsDigit(b[1])
    /\ IsDigit(b[Len(b)])
    /\ \A p \in 1..Len(b) : IsDigit(b[p]) \/ b[p] = "_"
    /\ \A p \in 1..(Len(b) - 1) : ~(b[p] = "_" /\ b[p + 1] = "_")

RECURSIVE DigitsValue(_, _)
DigitsValue(b, acc) ==
  IF b = <<>> THEN acc
  ELSE IF b[1] = "_" THEN DigitsValue(Tail(b), acc)
  ELSE DigitsValue(Tail(b), 10 * acc + DigitVal(b[1]))

IntValue(s) ==
  IF s[1] = "-" THEN 0 - DigitsValue(Unsigned(s), 0)
  ELSE DigitsValue(Unsigned(s), 0)

----------------------------------------------------------------------------
(* Error messages: the name of the format and its arguments as text. *)

NoMessage == [name |-> "", args |-> <<>>]

WRONG_NUM_TOKENS_ERROR(expected, actual) ==
  [name |-> "WRONG_NUM_TOKENS_ERROR", args |-> <<Str(expected), Str(actual)>>]

NOT_INTEGER_ERROR(text) ==
  [name |-> "NOT_INTEGER_ERROR", args |-> <<text>>]

INVALID_LINE_ERROR == [name |-> "INVALID_LINE_ERROR", args |-> <<>>]

ADDITIONAL_INPUT_ERROR(text) ==
  [name |-> "ADDITIONAL_INPUT_ERROR", args |-> <<text>>]

OUT_OF_BOUNDS_ERROR(text) ==
  [name |-> "OUT_OF_BOUNDS_ERROR", args |-> <<text>>]

TOO_MANY_ROUNDS_ERROR == [name |-> "TOO_MANY_ROUNDS_ERROR", args |-> <<>>]

SAME_PEN_TWICE_ERROR == [name |-> "SAME_PEN_TWICE_ERROR", args |-> <<>>]

TOO_FEW_CORRECT_ERROR(text) ==
  [name |-> "TOO_FEW_CORRECT_ERROR", args |-> <<text>>]

----------------------------------------------------------------------------
(* ReadValues(line, num_tokens): the values, or the Error raised. *)

FirstBad(t) == CHOOSE p \in 1..Len(t) :
                 /\ ~IsIntLiteral(t[p])
                 /\ \A q \in 1..(p - 1) : IsIntLiteral(t[q])

(* faulty variant: the tokens are converted before they are counted *)
ReadValues_ParseFirst(line, num_tokens) ==
  LET t == Split(line) IN
    IF \E p \in 1..Len(t) : ~IsIntLiteral(t[p])
    THEN [ok |-> FALSE, values |-> <<>>, found |-> Len(t),
          error |-> NOT_INTEGER_ERROR(Truncate(t[FirstBad(t)]))]
    ELSE IF Len(t) # num_tokens
    THEN [ok |-> FALSE, values |-> <<>>, found |-> Len(t),
          error |-> WRONG_NUM_TOKENS_ERROR(num_tokens, Len(t))]
    ELSE [ok |-> TRUE, values |-> [p \in 1..Len(t) |-> IntValue(t[p])],
          found |-> Len(t), error |-> NoMessage]

ReadValues(line, num_tokens) ==
  LET t == Split(line) IN
    IF Len(t) # num_tokens
    THEN [ok |-> FALSE, values |-> <<>>, found |-> Len(t),
          error |-> WRONG_NUM_TOKENS_ERROR(num_tokens, Len(t))]
    ELSE IF \E p \in 1..Len(t) : ~IsIntLiteral(t[p])
    THEN [ok |-> FALSE, values |-> <<>>, found |-> Len(t),
          error |-> NOT_INTEGER_ERROR(Truncate(t[FirstBad(t)]))]
    ELSE [ok |-> TRUE, values |-> [p \in 1..Len(t) |-> IntValue(t[p])],
          found |-> Len(t), error |-> NoMessage]

----------------------------------------------------------------------------
(* Shuffle: one iteration of its loop, with r the value of rng.Next(). *)

(* faulty variant: every draw ranges over the whole array *)
DrawIndex_FullRange(r, jj) == r % n

DrawIndex(r, jj) == r % (jj + 1)

(* faulty variant: arr[j] is overwritten before it is saved *)
Swap_NoTemp(arr, jj, k) == [arr EXCEPT ![jj + 1] = arr[k + 1]]

Swap(arr, jj, k) == [arr EXCEPT ![jj + 1] = arr[k + 1], ![k + 1] = arr[jj + 1]]

Range0(m) == [p \in 1..m |-> p - 1]

(* Shuffle(arr, rng) from iteration jj on, with d[j + 1] the value k of    *)
(* iteration j                                                             *)
RECURSIVE ShuffleWith(_, _, _)
ShuffleWith(arr, d, jj) ==
  IF jj >= Len(arr) THEN arr
  ELSE ShuffleWith(Swap(arr, jj, d[jj + 1]), d, jj + 1)

(* faulty variant: the budget is the total ink of a case *)
max_rounds_TotalInk == (n * (n - 1)) \div 2

(* faulty variant: the product is not halved *)
max_rounds_NotHalved == n * (n + 1)

max_rounds == (n * (n + 1)) \div 2

----------------------------------------------------------------------------
(* The round loop: what one move does to one case. *)

(* faulty variant: got >= 0 for got > 0 *)
MoveResult_GeZero(move, rem) ==
  IF move = 0 THEN DID_NOT_WRITE
  ELSE IF rem[move] >= 0 THEN SUCCESSFUL ELSE NO_MORE_INK

MoveResult(move, rem) ==
  IF move = 0 THEN DID_NOT_WRITE
  ELSE IF rem[move] > 0 THEN SUCCESSFUL ELSE NO_MORE_INK

(* faulty variant: the pen is written without looking at what is left *)
MoveRemaining_NoGuard(move, rem) ==
  IF move = 0 THEN rem ELSE [rem EXCEPT ![move] = rem[move] - 1]

(* faulty variant: the pen written is left empty *)
MoveRemaining_Emptied(move, rem) ==
  IF move = 0 THEN rem
  ELSE IF rem[move] > 0 THEN [rem EXCEPT ![move] = 0] ELSE rem

MoveRemaining(move, rem) ==
  IF move = 0 THEN rem
  ELSE IF rem[move] > 0 THEN [rem EXCEPT ![move] = rem[move] - 1] ELSE rem

MoveOutOfBounds(move) == move < 0 \/ move > n

(* faulty variant: the last out-of-bounds move is reported *)
FirstOutOfBounds_Last(ms) == CHOOSE p \in 1..Len(ms) :
                               /\ MoveOutOfBounds(ms[p])
                               /\ \A q \in (p + 1)..Len(ms) :
                                    ~MoveOutOfBounds(ms[q])

FirstOutOfBounds(ms) == CHOOSE p \in 1..Len(ms) :
                          /\ MoveOutOfBounds(ms[p])
                          /\ \A q \in 1..(p - 1) : ~MoveOutOfBounds(ms[q])

(* faulty variant: any(...) for all(...) *)
AllZero_Any(ms) == \E p \in 1..Len(ms) : ms[p] = 0

AllZero(ms) == \A p \in 1..Len(ms) : ms[p] = 0

----------------------------------------------------------------------------
(* Scoring: the loop of lines 164-175 over the pairs of the guess line. *)

V1(g, c) == g[2 * c - 1]

V2(g, c) == g[2 * c]

GuessOutOfBounds(v) == v < 1 \/ v > n

(* faulty variant: the check v1 == v2 is missing *)
PairError_NoSamePen(g, c) ==
  IF GuessOutOfBounds(V1(g, c)) THEN OUT_OF_BOUNDS_ERROR(Str(V1(g, c)))
  ELSE IF GuessOutOfBounds(V2(g, c)) THEN OUT_OF_BOUNDS_ERROR(Str(V2(g, c)))
  ELSE NoMessage

(* faulty variant: v1 is reported where v2 is out of bounds *)
PairError_ReportsV1(g, c) ==
  IF GuessOutOfBounds(V1(g, c)) THEN OUT_OF_BOUNDS_ERROR(Str(V1(g, c)))
  ELSE IF GuessOutOfBounds(V2(g, c)) THEN OUT_OF_BOUNDS_ERROR(Str(V1(g, c)))
  ELSE IF V1(g, c) = V2(g, c) THEN SAME_PEN_TWICE_ERROR
  ELSE NoMessage

PairError(g, c) ==
  IF GuessOutOfBounds(V1(g, c)) THEN OUT_OF_BOUNDS_ERROR(Str(V1(g, c)))
  ELSE IF GuessOutOfBounds(V2(g, c)) THEN OUT_OF_BOUNDS_ERROR(Str(V2(g, c)))
  ELSE IF V1(g, c) = V2(g, c) THEN SAME_PEN_TWICE_ERROR
  ELSE NoMessage

(* faulty variant: > n for >= n *)
PairCorrect_Strict(g, c, rem) == rem[c][V1(g, c)] + rem[c][V2(g, c)] > n

(* faulty variant: v1 is read twice *)
PairCorrect_V1Twice(g, c, rem) == rem[c][V1(g, c)] + rem[c][V1(g, c)] >= n

PairCorrect(g, c, rem) == rem[c][V1(g, c)] + rem[c][V2(g, c)] >= n

(* correct after the first upTo cases of the loop *)
CountCorrect(g, rem, upTo) ==
  Cardinality({c \in 1..upTo : PairCorrect(g, c, rem)})

FirstBadPair(g) == CHOOSE c \in 1..num_cases :
                     /\ PairError(g, c) # NoMessage
                     /\ \A d \in 1..(c - 1) : PairError(g, d) = NoMessage

Verdict(cnt, need) == IF cnt < need THEN "wrong_answer" ELSE "success"

----------------------------------------------------------------------------
(* The input lines the contestant may send. *)

T(s) == <<s>>

SP == <<" ">>

LongLine == [p \in 1..(MsgLimit + 1) |-> "a"]

OddTokens == { <<"-", "1">>, <<"+", "9">>, <<"0", "1">>, <<"-", "0">>,
               <<"a">>, <<"9">> }

MoveLinesOf(c, m) ==
  { Join(SP, [p \in 1..c |-> Str(f[p])]) : f \in [1..c -> 0..m] }

GuessLinesOf(c, m) ==
  { Join(SP, [p \in 1..(2 * c) |-> Str(f[p])]) : f \in [1..(2 * c) -> 1..m] }

(* odd tokens in the first two cases, "0" in the cases after them *)
OddMoveLinesOf(c) ==
  { Join(SP, [p \in 1..c |-> IF p <= 2 THEN f[p] ELSE T("0")]) :
      f \in { g \in [1..2 -> OddTokens \cup {T("0"), T("1")}] :
                \E p \in 1..2 : p <= c /\ g[p] \in OddTokens } }

OddPairs == { <<T("1"), T("1")>>, <<T("0"), T("1")>>, <<T("1"), T("9")>>,
              <<<<"+", "1">>, T("2")>>, <<T("1"), T("2")>>, <<T("a"), T("1")>> }

(* odd pairs in the first two cases, "1 2" in the cases after them *)
OddGuessLinesOf(c) ==
  { Join(SP, [p \in 1..(2 * c) |->
                IF p <= 4 THEN f[(p + 1) \div 2][2 - (p % 2)]
                ELSE Str(2 - (p % 2))]) :
      f \in [1..2 -> OddPairs] }

MiscLines ==
  { <<>>,
    <<" ", "1", " ", "\t", " ">>,
    <<"0", "\t", "0", " ", " ", "0", " ", "0", " ", "0">>,
    <<"1", "_", "0">>,
    <<"1", "_", "_", "0">>,
    <<"+">>,
    LongLine,
    T("0") \o SP \o LongLine }

(* the pairs <<num_cases, n>> tried: at most MaxItems pens in all *)
Configs == { cfg \in (1..MaxCases) \X (1..MaxN) : cfg[1] * cfg[2] <= MaxItems }

LinesOf(c, m) ==
  MoveLinesOf(c, m) \cup GuessLinesOf(c, m) \cup OddMoveLinesOf(c)
    \cup OddGuessLinesOf(c) \cup MiscLines

LinesTable == [cfg \in Configs |-> LinesOf(cfg[1], cfg[2])] @@ <<>>

Lines == LinesTable[<<num_cases, n>>]

(* the lines tried as the line after the guess line *)
ExtraLines == { <<>>, LongLine }

RngOutputs == 0..MaxRngOut

(* the seed tried: the seed of TestRunCases *)
Seeds == {123}

(* ReadValues tabulated over the lines and the token counts RunCases asks *)
(* for, so that each line is parsed once.                                 *)
AllLines == UNION { LinesTable[cfg] : cfg \in Configs }

TokenCounts == UNION { {c, 2 * c} : c \in 1..MaxCases }

ReadTable ==
  [key \in AllLines \X TokenCounts |-> ReadValues(key[1], key[2])] @@ <<>>

Read(line, num_tokens) == ReadTable[<<line, num_tokens>>]

----------------------------------------------------------------------------
(* main, where RunCases ends: lines 358-373. *)

NumTests == 3

INVALID_OUTPUT == -1

(* NUM_CASES[index] and NEED_CORRECT[index] exist: a list of 3 elements   *)
(* takes the indices -3..2                                                *)
IndexInRange(ix) == 0 - NumTests <= ix /\ ix < NumTests

Indexes == {0 - NumTests - 1, 0, NumTests}

(* lines 359-362: except Error *)
ExceptError ==
  /\ sentinel' = Append(sentinel, Str(INVALID_OUTPUT))
  /\ exit_status' = <<1>>

(* faulty variant: the sentinel is written for a wrong answer too *)
ExceptWrongAnswer_Sentinel ==
  /\ sentinel' = Append(sentinel, Str(INVALID_OUTPUT))
  /\ exit_status' = <<1>>

(* lines 363-365: except WrongAnswer *)
ExceptWrongAnswer ==
  /\ sentinel' = sentinel
  /\ exit_status' = <<1>>

(* lines 366-373: except Exception *)
ExceptException ==
  /\ sentinel' = Append(sentinel, Str(INVALID_OUTPUT))
  /\ exit_status' = <<1>>

(* RunCases returns, and main after it: the process ends with status 0 *)
Return ==
  /\ sentinel' = sentinel
  /\ exit_status' = <<0>>

----------------------------------------------------------------------------
(* RunCases *)

(* what is kept of a call of RunCases made by a test on the lines ls *)
NoCall(ls) == [input |-> ls, output |-> <<>>, outcome |-> "",
               message |-> NoMessage, hidden |-> <<>>]

(* main's handler h runs when main called RunCases, not when a test did *)
Caught(h) == IF call = 0 THEN h ELSE UNCHANGED <<sentinel, exit_status>>

(* lines 99-105: Input() gives the line: any line of the contestant, or    *)
(* test_input.pop(0)                                                       *)
Input(line) ==
  /\ call > 0 => (test_input # <<>> /\ line = Head(test_input))
  /\ test_input' = IF call > 0 THEN Tail(test_input) ELSE test_input
  /\ last_input' = "line"
  /\ num_reads' = num_reads + 1

(* lines 106-109: Input() raises EOFError: the contestant's output has     *)
(* ended, or test_input is empty                                           *)
InputEOF ==
  /\ call > 0 => test_input = <<>>
  /\ test_input' = test_input
  /\ last_input' = "eof"
  /\ num_reads' = num_reads + 1

(* lines 113-117: Output(text) *)
Output(text) ==
  IF call = 0
  THEN /\ output' = text
       /\ num_output' = num_output + 1
       /\ test_output_storage' = test_output_storage
  ELSE /\ test_output_storage' = Append(test_output_storage, text)
       /\ UNCHANGED <<output, num_output>>

NoOutput == UNCHANGED <<output, num_output, test_output_storage>>

(* faulty variant: the generator of the call before is used on *)
RNG_init_Shared(s) == counter

(* line 50: RNG(seed) *)
RNG_init(s) == s

(* lines 52-58: rng.Next() gives r.  SHA-256 is a function: the value for  *)
(* a counter drawn before is the value it had then.  The values are kept   *)
(* where RunCases is called more than once.                                *)
RngNext(r) ==
  /\ counter' = counter + 1
  /\ (counter + 1) \in DOMAIN digest => r = digest[counter + 1]
  /\ digest' = IF call > 0 /\ (counter + 1) \notin DOMAIN digest
               THEN digest @@ ((counter + 1) :> r)
               ELSE digest

Init ==
  /\ \E cfg \in Configs : num_cases = cfg[1] /\ n = cfg[2]
  /\ need_correct \in 1..num_cases
  /\ seed \in Seeds
  /\ counter = seed
  /\ remaining = <<>>
  /\ initial = <<>>
  /\ i = 0
  /\ j = 0
  /\ num_rounds = 0
  /\ moves = <<>>
  /\ results = <<>>
  /\ guesses = <<>>
  /\ correct = 0
  /\ output = <<>>
  /\ num_output = 0
  /\ pc = "start"
  /\ outcome = ""
  /\ last_input = "none"
  /\ found = 0
  /\ message = NoMessage
  /\ index \in Indexes
  /\ sentinel = <<>>
  /\ exit_status = <<>>
  /\ ones = <<>>
  /\ num_reads = 0
  /\ draws = <<>>
  /\ test_line = <<>>
  /\ test_num_tokens = 0
  /\ call = 0
  /\ test_input = <<>>
  /\ test_output_storage = <<>>
  /\ first_call = NoCall(<<>>)
  /\ digest = <<>>

Header == Join(SP, <<Str(num_cases), Str(n), Str(need_correct)>>)

(* lines 354-356: the tables have no element index: IndexError *)
LookupFails ==
  /\ pc = "start"
  /\ ~IndexInRange(index)
  /\ pc' = "aborted"
  /\ outcome' = "judge_error"
  /\ ExceptException
  /\ UNCHANGED <<test_line, test_num_tokens, call, test_input,
                 test_output_storage, first_call, digest>>
  /\ UNCHANGED <<num_cases, n, need_correct, seed, counter, remaining, initial,
                 i, j, num_rounds, moves, results, guesses, correct, output,
                 num_output, last_input, found, message, index, ones,
                 num_reads, draws>>

(* lines 354-358 and 119-124: the header, the cases in order 0..n-1,      *)
(* RNG(seed)                                                              *)
Start ==
  /\ pc = "start"
  /\ IndexInRange(index)
  /\ Output(Header)
  /\ remaining' = [c \in 1..num_cases |-> Range0(n)]
  /\ initial' = remaining'
  /\ counter' = RNG_init(seed)
  /\ i' = 0
  /\ j' = 0
  /\ ones' = [c \in 1..num_cases |-> 0]
  /\ draws' = [c \in 1..num_cases |-> <<>>]
  /\ pc' = "shuffle"
  /\ UNCHANGED <<test_line, test_num_tokens, call, test_input, first_call,
                 digest>>
  /\ UNCHANGED <<num_cases, n, need_correct, seed, num_rounds, moves, results,
                 guesses, correct, outcome, last_input, found, message, index,
                 sentinel, exit_status, num_reads>>

(* lines 125-126 and 62-66: one iteration of Shuffle(remaining[i], rng) *)
ShuffleStep(r) ==
  /\ pc = "shuffle"
  /\ RngNext(r)
  /\ remaining' = [remaining EXCEPT
                     ![i + 1] = Swap(remaining[i + 1], j, DrawIndex(r, j))]
  /\ initial' = remaining'
  /\ draws' = [draws EXCEPT ![i + 1] = Append(draws[i + 1], DrawIndex(r, j))]
  /\ IF j + 1 < n
     THEN /\ j' = j + 1
          /\ i' = i
          /\ pc' = pc
     ELSE /\ j' = 0
          /\ i' = i + 1
          /\ pc' = IF i + 1 < num_cases THEN "shuffle" ELSE "playing"
  /\ UNCHANGED <<test_line, test_num_tokens, call, test_input,
                 test_output_storage, first_call>>
  /\ UNCHANGED <<num_cases, n, need_correct, seed, num_rounds, moves, results,
                 guesses, correct, output, num_output, outcome, last_input,
                 found, message, index, sentinel, exit_status, ones,
                 num_reads>>

(* faulty variant: ''.join for ' '.join *)
ResultLine_NoSeparator(res) == Join(<<>>, [c \in 1..Len(res) |-> Str(res[c])])

(* line 157: ' '.join(str(result) for result in results) *)
ResultLine(res) == Join(SP, [c \in 1..Len(res) |-> Str(res[c])])

(* raise Error(msg) out of RunCases, into main *)
RaiseError(msg) ==
  /\ pc' = "end"
  /\ outcome' = "error"
  /\ message' = msg
  /\ Caught(ExceptError)

(* faulty variant: the moves are applied before the rounds are counted *)
OverBudget_MovesApplied(ms) ==
  /\ RaiseError(TOO_MANY_ROUNDS_ERROR)
  /\ remaining' = [c \in 1..num_cases |-> MoveRemaining(ms[c], remaining[c])]
  /\ UNCHANGED <<results, ones>>
  /\ NoOutput

(* lines 143-144: the round of the moves ms is one more than max_rounds *)
OverBudget(ms) ==
  /\ RaiseError(TOO_MANY_ROUNDS_ERROR)
  /\ UNCHANGED <<results, remaining, ones>>
  /\ NoOutput

(* lines 131-157: one iteration of the round loop on the line read *)
RoundLine(line) ==
  /\ pc = "playing"
  /\ Input(line)
  /\ found' = Read(line, num_cases).found
  /\ LET rv == Read(line, num_cases) IN
       IF ~rv.ok
       THEN /\ RaiseError(rv.error)
            /\ UNCHANGED <<moves, num_rounds, results, remaining, ones>>
            /\ NoOutput
       ELSE /\ moves' = rv.values
            /\ IF \E p \in 1..num_cases : MoveOutOfBounds(rv.values[p])
               THEN /\ RaiseError(OUT_OF_BOUNDS_ERROR(
                                    Str(rv.values[FirstOutOfBounds(rv.values)])))
                    /\ UNCHANGED <<num_rounds, results, remaining, ones>>
                    /\ NoOutput
               ELSE IF AllZero(rv.values)
               THEN /\ pc' = "done"
                    /\ UNCHANGED <<num_rounds, results, remaining, outcome,
                                   message, ones, sentinel, exit_status>>
                    /\ NoOutput
               ELSE /\ num_rounds' = num_rounds + 1
                    /\ IF num_rounds + 1 > max_rounds
                       THEN OverBudget(rv.values)
                       ELSE /\ results' = [c \in 1..num_cases |->
                                 MoveResult(rv.values[c], remaining[c])]
                            /\ remaining' = [c \in 1..num_cases |->
                                 MoveRemaining(rv.values[c], remaining[c])]
                            /\ ones' = [c \in 1..num_cases |->
                                 IF results'[c] = SUCCESSFUL
                                 THEN ones[c] + 1 ELSE ones[c]]
                            /\ Output(ResultLine(results'))
                            /\ UNCHANGED <<pc, outcome, message, sentinel,
                                           exit_status>>
  /\ UNCHANGED <<test_line, test_num_tokens, call, first_call, digest>>
  /\ UNCHANGED <<num_cases, n, need_correct, seed, counter, initial, i, j,
                 guesses, correct, index, draws>>

(* faulty variant: end of input in place of the guess line counts as no   *)
(* guess and goes on to the threshold                                     *)
RequiredLineEOF_GuessOptional ==
  /\ pc \in {"playing", "done"}
  /\ InputEOF
  /\ IF pc = "playing"
     THEN RaiseError(INVALID_LINE_ERROR)
     ELSE /\ pc' = "end"
          /\ outcome' = "wrong_answer"
          /\ message' = TOO_FEW_CORRECT_ERROR(Str(correct))
          /\ Caught(ExceptWrongAnswer)
  /\ UNCHANGED <<test_line, test_num_tokens, call, test_output_storage,
                 first_call, digest>>
  /\ UNCHANGED <<num_cases, n, need_correct, seed, counter, remaining, initial,
                 i, j, num_rounds, moves, results, guesses, correct, output,
                 num_output, found, index, ones, draws>>

(* lines 134-135 and 161-162: EOFError where a line is required *)
RequiredLineEOF ==
  /\ pc \in {"playing", "done"}
  /\ InputEOF
  /\ RaiseError(INVALID_LINE_ERROR)
  /\ UNCHANGED <<test_line, test_num_tokens, call, test_output_storage,
                 first_call, digest>>
  /\ UNCHANGED <<num_cases, n, need_correct, seed, counter, remaining, initial,
                 i, j, num_rounds, moves, results, guesses, correct, output,
                 num_output, found, index, ones, draws>>

(* lines 110-111: input() fails otherwise than by EOFError *)
InputFails ==
  /\ pc \in {"playing", "done", "extra"}
  /\ call = 0
  /\ last_input' = "fail"
  /\ num_reads' = num_reads + 1
  /\ RaiseError(INVALID_LINE_ERROR)
  /\ UNCHANGED <<test_line, test_num_tokens, call, test_input,
                 test_output_storage, first_call, digest>>
  /\ UNCHANGED <<num_cases, n, need_correct, seed, counter, remaining, initial,
                 i, j, num_rounds, moves, results, guesses, correct, output,
                 num_output, found, index, ones, draws>>

(* lines 159-175: the guess line and the scoring loop *)
GuessLine(line) ==
  /\ pc = "done"
  /\ Input(line)
  /\ found' = Read(line, 2 * num_cases).found
  /\ LET rv == Read(line, 2 * num_cases) IN
       IF ~rv.ok
       THEN /\ RaiseError(rv.error)
            /\ UNCHANGED <<guesses, correct>>
       ELSE /\ guesses' = rv.values
            /\ IF \E c \in 1..num_cases : PairError(rv.values, c) # NoMessage
               THEN /\ RaiseError(PairError(rv.values, FirstBadPair(rv.values)))
                    /\ correct' = CountCorrect(rv.values, remaining,
                                               FirstBadPair(rv.values) - 1)
               ELSE /\ correct' = CountCorrect(rv.values, remaining, num_cases)
                    /\ pc' = "extra"
                    /\ UNCHANGED <<outcome, message, sentinel, exit_status>>
  /\ UNCHANGED <<test_line, test_num_tokens, call, test_output_storage,
                 first_call, digest>>
  /\ UNCHANGED <<num_cases, n, need_correct, seed, counter, remaining, initial,
                 i, j, num_rounds, moves, results, output, num_output, index,
                 ones, draws>>

(* lines 177-179: a line after the guess line *)
ExtraLine(line) ==
  /\ pc = "extra"
  /\ Input(line)
  /\ RaiseError(ADDITIONAL_INPUT_ERROR(Truncate(line)))
  /\ UNCHANGED <<test_line, test_num_tokens, call, test_output_storage,
                 first_call, digest>>
  /\ UNCHANGED <<num_cases, n, need_correct, seed, counter, remaining, initial,
                 i, j, num_rounds, moves, results, guesses, correct, output,
                 num_output, found, index, ones, draws>>

(* lines 180-184: end of input after the guess line, then the threshold *)
ExtraEOF ==
  /\ pc = "extra"
  /\ InputEOF
  /\ pc' = "end"
  /\ outcome' = Verdict(correct, need_correct)
  /\ message' = IF correct < need_correct
                THEN TOO_FEW_CORRECT_ERROR(Str(correct)) ELSE NoMessage
  /\ Caught(IF correct < need_correct THEN ExceptWrongAnswer ELSE Return)
  /\ UNCHANGED <<test_line, test_num_tokens, call, test_output_storage,
                 first_call, digest>>
  /\ UNCHANGED <<num_cases, n, need_correct, seed, counter, remaining, initial,
                 i, j, num_rounds, moves, results, guesses, correct, output,
                 num_output, found, index, ones, draws>>

Next ==
  \/ LookupFails
  \/ Start
  \/ \E r \in RngOutputs : ShuffleStep(r)
  \/ \E line \in Lines : RoundLine(line)
  \/ RequiredLineEOF
  \/ InputFails
  \/ \E line \in Lines : GuessLine(line)
  \/ \E line \in ExtraLines : ExtraLine(line)
  \/ ExtraEOF

Spec == Init /\ [][Next]_vars

(* The run under the condition that no step waits for ever: every call of  *)
(* Input() gives a line, the end of input or a failure, and every other    *)
(* step is a computation of the one thread of the judge.                   *)
FairSpec == Spec /\ WF_vars(Next)

----------------------------------------------------------------------------
(* TestReadValues: ReadValues called on its own, as lines 215-223 do, on   *)
(* each line of AllLines with each token count of TokenCounts.  The list   *)
(* returned is kept in moves, the Error raised in message.                 *)

ReadValuesInit ==
  /\ num_cases = 1
  /\ n = 1
  /\ need_correct = 1
  /\ seed \in Seeds
  /\ counter = seed
  /\ remaining = <<>>
  /\ initial = <<>>
  /\ i = 0
  /\ j = 0
  /\ num_rounds = 0
  /\ moves = <<>>
  /\ results = <<>>
  /\ guesses = <<>>
  /\ correct = 0
  /\ output = <<>>
  /\ num_output = 0
  /\ pc = "test"
  /\ outcome = ""
  /\ last_input = "none"
  /\ found = 0
  /\ message = NoMessage
  /\ index = 0 - 2
  /\ sentinel = <<>>
  /\ exit_status = <<>>
  /\ ones = <<>>
  /\ num_reads = 0
  /\ draws = <<>>
  /\ test_line = <<>>
  /\ test_num_tokens = 0
  /\ call = 1
  /\ test_input = <<>>
  /\ test_output_storage = <<>>
  /\ first_call = NoCall(<<>>)
  /\ digest = <<>>

ReadValuesCall(line, num_tokens) ==
  /\ pc = "test"
  /\ pc' = "tested"
  /\ test_line' = line
  /\ test_num_tokens' = num_tokens
  /\ LET rv == Read(line, num_tokens) IN
       /\ found' = rv.found
       /\ moves' = rv.values
       /\ outcome' = IF rv.ok THEN "returned" ELSE "error"
       /\ message' = rv.error
  /\ UNCHANGED <<num_cases, n, need_correct, seed, counter, remaining, initial,
                 i, j, num_rounds, results, guesses, correct, output,
                 num_output, last_input, index, sentinel, exit_status, ones,
                 num_reads, draws, call, test_input, test_output_storage,
                 first_call, digest>>

ReadValuesNext ==
  \E line \in AllLines : \E num_tokens \in TokenCounts :
    ReadValuesCall(line, num_tokens)

ReadValuesSpec == ReadValuesInit /\ [][ReadValuesNext]_vars

-----------------------------------------------------------------------------
(* TestRunCases, lines 227-337: RunCases is called on lists of lines with   *)
(* seed 123, and the expectations of the test are those of one hidden state *)
(* for that seed: a call is made a second time on the same list.            *)

GuessOf(a, b) == Join(SP, <<Str(a), Str(b)>>)

Repeat(line, k) == [p \in 1..k |-> line]

(* lists of lines as in lines 230-337, for RunCases(1, 3, 1, 123), and      *)
(* lists that end in a line after the guesses                               *)
TestInputs ==
  { <<>>,
    <<Str(0), GuessOf(1, 2)>>,
    <<Str(0), GuessOf(2, 1)>>,
    <<Str(0), GuessOf(1, 3)>>,
    <<Str(0), GuessOf(2, 3)>>,
    <<Str(1), Str(2), Str(3)>>,
    <<Str(1), Str(2), Str(3), Str(0)>>,
    <<Str(-1), Str(0), GuessOf(1, 2)>>,
    <<Str(0), GuessOf(0, 1)>>,
    <<Str(0), GuessOf(1, 9)>>,
    <<Str(0), GuessOf(1, 1)>>,
    <<Str(1), Str(0), GuessOf(2, 3)>>,
    <<Str(2), Str(0), GuessOf(2, 3)>>,
    Repeat(Str(3), 6) \o <<Str(0), GuessOf(1, 2)>>,
    Repeat(Str(3), 7) \o <<Str(0), GuessOf(1, 2)>>,
    <<Str(0), GuessOf(1, 2), <<>>>>,
    <<Str(0), GuessOf(1, 2), LongLine>> }

TestRunCasesInit ==
  /\ num_cases = 1
  /\ n = 3
  /\ need_correct = 1
  /\ seed \in Seeds
  /\ counter = seed
  /\ remaining = <<>>
  /\ initial = <<>>
  /\ i = 0
  /\ j = 0
  /\ num_rounds = 0
  /\ moves = <<>>
  /\ results = <<>>
  /\ guesses = <<>>
  /\ correct = 0
  /\ output = <<>>
  /\ num_output = 0
  /\ pc = "start"
  /\ outcome = ""
  /\ last_input = "none"
  /\ found = 0
  /\ message = NoMessage
  /\ index = 0 - 2
  /\ sentinel = <<>>
  /\ exit_status = <<>>
  /\ ones = <<>>
  /\ num_reads = 0
  /\ draws = <<>>
  /\ test_line = <<>>
  /\ test_num_tokens = 0
  /\ call = 1
  /\ test_input \in TestInputs
  /\ test_output_storage = <<>>
  /\ first_call = NoCall(test_input)
  /\ digest = <<>>

(* the first call has returned or raised: RunCases is called again with the *)
(* same arguments, a new list of the same lines and a new storage; line 122 *)
(* makes a new generator from the seed                                      *)
SecondCall ==
  /\ call = 1
  /\ pc = "end"
  /\ first_call' = [input |-> first_call.input, output |-> test_output_storage,
                    outcome |-> outcome, message |-> message,
                    hidden |-> initial]
  /\ call' = 2
  /\ test_input' = first_call.input
  /\ test_output_storage' = <<>>
  /\ remaining' = <<>>
  /\ initial' = <<>>
  /\ i' = 0
  /\ j' = 0
  /\ num_rounds' = 0
  /\ moves' = <<>>
  /\ results' = <<>>
  /\ guesses' = <<>>
  /\ correct' = 0
  /\ pc' = "start"
  /\ outcome' = ""
  /\ last_input' = "none"
  /\ found' = 0
  /\ message' = NoMessage
  /\ ones' = <<>>
  /\ num_reads' = 0
  /\ draws' = <<>>
  /\ UNCHANGED <<num_cases, n, need_correct, seed, counter, index, sentinel,
                 exit_status, test_line, test_num_tokens, digest, output,
                 num_output>>

TestRunCasesNext ==
  \/ Start
  \/ \E r \in RngOutputs : ShuffleStep(r)
  \/ \E line \in Lines : RoundLine(line)
  \/ RequiredLineEOF
  \/ \E line \in Lines : GuessLine(line)
  \/ \E line \in ExtraLines : ExtraLine(line)
  \/ ExtraEOF
  \/ SecondCall

TestRunCasesSpec == TestRunCasesInit /\ [][TestRunCasesNext]_vars

----------------------------------------------------------------------------
(* Steps of the round loop, as the properties below name them. *)

Cases == 1..num_cases

Pens == 1..n

Budget == (n * (n + 1)) \div 2

Initialized == pc \in {"playing", "done", "extra", "end"}

(* the step answers a round: the line is accepted and is not all zero *)
RoundAnswered ==
  pc = "playing" /\ pc' = "playing" /\ num_rounds' = num_rounds + 1

(* the step reads a line in the round loop and ReadValues returns *)
RoundParsed ==
  /\ pc = "playing"
  /\ last_input' = "line"
  /\ vars' # vars
  /\ message'.name \notin {"WRONG_NUM_TOKENS_ERROR", "NOT_INTEGER_ERROR"}

EveryMoveZero(ms) == \A c \in 1..Len(ms) : ms[c] = 0

InBounds(ms) == \A c \in 1..Len(ms) : ms[c] \in 0..n

SplitTable == [line \in AllLines |-> Split(line)] @@ <<>>

----------------------------------------------------------------------------
(* C1: in every answered round, for each case on its own: a move of 0     *)
(* gives result 0 and leaves the case's pens unchanged; a move m in 1..N   *)
(* on a pen with 0 left gives result 0 and leaves them unchanged; a move   *)
(* m in 1..N on a pen with more than 0 left gives result 1 and takes       *)
(* exactly 1 from exactly that pen.                                        *)
C1_MoveSemantics ==
  [][RoundAnswered =>
       \A c \in Cases :
         LET m == moves'[c] IN
           /\ m \in 0..n
           /\ (m = 0 =>
                 results'[c] = 0 /\ remaining'[c] = remaining[c])
           /\ (m # 0 /\ remaining[c][m] = 0 =>
                 results'[c] = 0 /\ remaining'[c] = remaining[c])
           /\ (m # 0 /\ remaining[c][m] > 0 =>
                 /\ results'[c] = 1
                 /\ remaining'[c][m] = remaining[c][m] - 1
                 /\ \A q \in Pens \ {m} :
                      remaining'[c][q] = remaining[c][q])]_vars

(* a round of two cases answered "0 1": case 1 did not write, case 2 wrote *)
C1_Witness ==
  /\ pc = "playing"
  /\ num_cases = 2
  /\ num_rounds > 0
  /\ moves[1] = 0
  /\ moves[2] # 0
  /\ results = <<0, 1>>
  /\ remaining[1] = initial[1]
  /\ remaining[2][moves[2]] = initial[2][moves[2]] - 1

----------------------------------------------------------------------------
(* C2: once the cases are shuffled, every pen of every case holds an       *)
(* integer between 0 and the value the shuffle gave it, and from one       *)
(* state to the next every pen keeps its value or loses exactly 1.         *)
C2_Bounded ==
  Initialized =>
    \A c \in Cases : \A q \in Pens :
      /\ remaining[c][q] \in Int
      /\ 0 <= remaining[c][q]
      /\ remaining[c][q] <= initial[c][q]

C2_Step ==
  Initialized =>
    /\ initial' = initial
    /\ \A c \in Cases : \A q \in Pens :
         \/ remaining'[c][q] = remaining[c][q]
         \/ remaining'[c][q] = remaining[c][q] - 1

C2_ValuesOnlyDecrease == [] C2_Bounded /\ [][C2_Step]_vars

(* a pen that started with 2 units has been written dry *)
C2_Witness ==
  /\ Initialized
  /\ \E c \in Cases : \E q \in Pens :
       initial[c][q] = 2 /\ remaining[c][q] = 0

----------------------------------------------------------------------------
(* C3: the round budget is exactly N*(N+1)/2.  A parsed in-bounds line     *)
(* that is not all zero is answered while fewer than N*(N+1)/2 rounds      *)
(* were played, and fails with the too-many-rounds error once              *)
(* N*(N+1)/2 were; an all-zero line ends the loop whatever the number of   *)
(* rounds played.                                                          *)
C3_RoundBudget ==
  [][(RoundParsed /\ InBounds(moves')) =>
       IF EveryMoveZero(moves')
       THEN pc' = "done" /\ num_rounds' = num_rounds /\ outcome' = ""
       ELSE IF num_rounds < Budget
       THEN /\ pc' = "playing"
            /\ num_rounds' = num_rounds + 1
            /\ num_output' = num_output + 1
            /\ outcome' = ""
       ELSE /\ pc' = "end"
            /\ outcome' = "error"
            /\ message' = TOO_MANY_ROUNDS_ERROR
            /\ num_output' = num_output
            /\ remaining' = remaining]_vars

(* a run of N = 3 that played exactly 6 rounds and succeeded *)
C3_Witness ==
  /\ n = 3
  /\ num_rounds = Budget
  /\ outcome = "success"

----------------------------------------------------------------------------
(* C4: the round loop is left for the guess line exactly when the line     *)
(* just read parsed as case_count in-bounds moves that are all 0; a line   *)
(* with some but not all moves 0 is an ordinary round; a line of           *)
(* 2 * case_count tokens read in the round loop is rejected for its        *)
(* token count and never taken as guesses.                                 *)
C4_LeavesLoop ==
  (pc = "playing" /\ pc' = "done") =>
     /\ last_input' = "line"
     /\ Len(moves') = num_cases
     /\ InBounds(moves')
     /\ EveryMoveZero(moves')

C4_AllZeroLeaves ==
  (RoundParsed /\ InBounds(moves') /\ EveryMoveZero(moves')) => pc' = "done"

C4_PartialZero ==
  (/\ RoundParsed
   /\ InBounds(moves')
   /\ \E c \in Cases : moves'[c] = 0
   /\ \E c \in Cases : moves'[c] # 0) =>
     /\ pc' # "done"
     /\ num_rounds' = num_rounds + 1
     /\ guesses' = <<>>
     /\ (num_rounds < Budget => pc' = "playing" /\ num_output' = num_output + 1)

C4_GuessShaped ==
  (pc = "playing" /\ last_input' = "line" /\ found' = 2 * num_cases) =>
     /\ pc' = "end"
     /\ outcome' = "error"
     /\ message' = WRONG_NUM_TOKENS_ERROR(num_cases, 2 * num_cases)
     /\ guesses' = <<>>

C4_OnlyAllZeroTerminates ==
  [][C4_LeavesLoop /\ C4_AllZeroLeaves /\ C4_PartialZero /\ C4_GuessShaped]_vars

(* a round of two cases with the moves "0 m" was answered, not taken as    *)
(* the termination signal                                                  *)
C4_Witness ==
  /\ pc = "playing"
  /\ num_cases = 2
  /\ num_rounds = 1
  /\ num_output = 2
  /\ moves[1] = 0
  /\ moves[2] # 0
  /\ guesses = <<>>

----------------------------------------------------------------------------
(* C5: whatever the RNG gives, after initialization every case holds each  *)
(* value of 0..N-1 exactly once.                                           *)
IsPermutation(arr) ==
  /\ Len(arr) = n
  /\ \A v \in 0..(n - 1) : Cardinality({q \in 1..Len(arr) : arr[q] = v}) = 1

C5_ShuffledPermutation ==
  Initialized =>
    /\ Len(initial) = num_cases
    /\ \A c \in Cases : IsPermutation(initial[c])
    /\ (num_rounds = 0 => remaining = initial)

(* the arrangement of TestRunCases: the ink values are 2 1 0 *)
C5_Witness ==
  /\ pc = "playing"
  /\ num_rounds = 0
  /\ n = 3
  /\ remaining[1] = <<2, 1, 0>>

----------------------------------------------------------------------------
(* The guess line, as the properties below read it. *)

(* the guesses are 2 * case_count values in 1..N, the two of a case differ *)
ValidGuesses(g) ==
  /\ Len(g) = 2 * num_cases
  /\ \A p \in 1..Len(g) : g[p] \in 1..n
  /\ \A c \in Cases : g[2 * c - 1] # g[2 * c]

(* the cases whose two guessed pens hold at least N units together *)
CorrectCases(g) ==
  { c \in Cases : remaining[c][g[2 * c - 1]] + remaining[c][g[2 * c]] >= n }

(* a valid guess line was scored *)
Scored == pc = "extra" \/ (pc = "end" /\ ValidGuesses(guesses))

----------------------------------------------------------------------------
----------------------------------------------------------------------------
(* C7: the order within a guess pair does not matter: for a valid guess    *)
(* line, swapping v1 and v2 in the pairs of any set of cases gives a valid *)
(* line with the same correctness per case, the same correct count and     *)
(* the same outcome.                                                       *)
SwapPairs(g, S) ==
  [p \in 1..Len(g) |->
     IF ((p + 1) \div 2) \in S
     THEN (IF p % 2 = 1 THEN g[p + 1] ELSE g[p - 1])
     ELSE g[p]]

C7_PairOrderIrrelevant ==
  Scored =>
    \A S \in SUBSET Cases :
      LET g2 == SwapPairs(guesses, S) IN
        /\ \A c \in Cases : PairError(g2, c) = NoMessage
        /\ \A c \in Cases :
             PairCorrect(g2, c, remaining) <=> PairCorrect(guesses, c, remaining)
        /\ CountCorrect(g2, remaining, num_cases) = correct
        /\ Verdict(CountCorrect(g2, remaining, num_cases), need_correct)
             = Verdict(correct, need_correct)
        /\ (outcome \in {"success", "wrong_answer"} =>
              outcome = Verdict(CountCorrect(g2, remaining, num_cases),
                                need_correct))

(* a correct pair given with the larger index first, after a round played *)
C7_Witness ==
  /\ outcome = "success"
  /\ num_rounds > 0
  /\ correct = 1
  /\ guesses[1] > guesses[2]
  /\ remaining[1][guesses[1]] # remaining[1][guesses[2]]

----------------------------------------------------------------------------
(* C8: a guess line of 2 * case_count integers in which some case names    *)
(* the same pen twice ends the run in a protocol failure, never in         *)
(* success or a verdict failure, whatever the other pairs are.             *)
HasSamePen(g) ==
  /\ Len(g) = 2 * num_cases
  /\ \E c \in Cases : g[2 * c - 1] = g[2 * c]

C8_SamePenFails ==
  HasSamePen(guesses) =>
    /\ pc = "end"
    /\ outcome = "error"
    /\ message.name \in {"SAME_PEN_TWICE_ERROR", "OUT_OF_BOUNDS_ERROR"}
    /\ ((\A p \in 1..Len(guesses) : guesses[p] \in 1..n) =>
          message = SAME_PEN_TWICE_ERROR)

(* the second case repeats a pen, the first case is guessed right *)
C8_Witness ==
  /\ num_cases = 2
  /\ Len(guesses) = 4
  /\ guesses[1] # guesses[2]
  /\ guesses[3] = guesses[4]
  /\ need_correct = 1
  /\ outcome = "error"
  /\ message = SAME_PEN_TWICE_ERROR

----------------------------------------------------------------------------
(* C9: a round line of case_count integer tokens with a move below 0 or    *)
(* above N fails with the out-of-bounds error of the first such move in    *)
(* case order, whatever the round counter and the other moves are.         *)
TokenOutOfBounds(t, m) == IntValue(t) < 0 \/ IntValue(t) > m

HasOutOfBoundsMove(line, c, m) ==
  LET t == Split(line) IN
    /\ Len(t) = c
    /\ \A p \in 1..Len(t) : IsIntLiteral(t[p])
    /\ \E p \in 1..Len(t) : TokenOutOfBounds(t[p], m)

OutOfBoundsTable ==
  [cfg \in Configs |->
     { line \in LinesTable[cfg] : HasOutOfBoundsMove(line, cfg[1], cfg[2]) }]
    @@ <<>>

(* the lines of case_count integer tokens with a move out of bounds *)
OutOfBoundsLines == OutOfBoundsTable[<<num_cases, n>>]

FirstOutOfBoundsToken(line) ==
  LET t == SplitTable[line] IN
    t[CHOOSE p \in 1..Len(t) :
        /\ TokenOutOfBounds(t[p], n)
        /\ \A q \in 1..(p - 1) : ~TokenOutOfBounds(t[q], n)]

(* C9 as claimed: the message holds the token as the contestant wrote it *)
C9_NamesRawToken ==
  [][pc = "playing" =>
       \A line \in OutOfBoundsLines :
         RoundLine(line) =>
            /\ pc' = "end"
            /\ outcome' = "error"
            /\ message' = OUT_OF_BOUNDS_ERROR(FirstOutOfBoundsToken(line))]_vars

(* C9 as amended: the message holds the decimal form of the value parsed  *)
(* from the first out-of-bounds token.                                     *)
C9_NamesParsedValue ==
  [][pc = "playing" =>
       \A line \in OutOfBoundsLines :
         RoundLine(line) =>
            /\ pc' = "end"
            /\ outcome' = "error"
            /\ message' = OUT_OF_BOUNDS_ERROR(
                            Str(IntValue(FirstOutOfBoundsToken(line))))
            /\ num_rounds' = num_rounds
            /\ remaining' = remaining]_vars

(* the round budget is used up and a line with two out-of-bounds moves,   *)
(* -1 then 9, is rejected for the first of them                            *)
C9_Witness ==
  /\ num_cases = 2
  /\ num_rounds = Budget
  /\ outcome = "error"
  /\ moves = <<-1, 9>>
  /\ message = OUT_OF_BOUNDS_ERROR(<<"-", "1">>)

----------------------------------------------------------------------------
(* C10: when a valid guess line is followed by one more line, even an      *)
(* empty one, the run ends with the additional-input error, which carries  *)
(* at most the first 100 characters of that line, and never with success   *)
(* or a verdict failure, whatever the correct count is.                    *)
Prefix(s, t) == Len(s) <= Len(t) /\ \A p \in 1..Len(s) : s[p] = t[p]

C10_ExtraInputFails ==
  (pc = "end" /\ Scored /\ last_input = "line") =>
    /\ outcome = "error"
    /\ message.name = "ADDITIONAL_INPUT_ERROR"
    /\ Len(message.args[1]) <= 100
    /\ \E line \in ExtraLines :
         /\ Prefix(message.args[1], line)
         /\ (Len(line) <= 100 => message.args[1] = line)
         /\ (Len(line) > 100 => Len(message.args[1]) = 100)

(* an empty line follows a guess line that met the threshold *)
C10_Witness ==
  /\ pc = "end"
  /\ Scored
  /\ last_input = "line"
  /\ correct >= need_correct
  /\ message = ADDITIONAL_INPUT_ERROR(<<>>)

----------------------------------------------------------------------------
(* C11: end of input is an error exactly where a line is required: when    *)
(* Input() gives end of input in the round loop or where the guess line    *)
(* is expected, the run ends with the invalid-line error; when it gives    *)
(* end of input at the read that follows a valid guess line, no error is   *)
(* raised for it and the run ends by the comparison of correct with the    *)
(* threshold.                                                              *)
C11_Step ==
  (last_input' = "eof" /\ pc # "end") =>
     /\ pc' = "end"
     /\ IF pc \in {"playing", "done"}
        THEN /\ outcome' = "error"
             /\ message' = INVALID_LINE_ERROR
        ELSE /\ pc = "extra"
             /\ ValidGuesses(guesses)
             /\ outcome' = IF correct >= need_correct
                           THEN "success" ELSE "wrong_answer"
             /\ message'.name \in {"", "TOO_FEW_CORRECT_ERROR"}

C11_EndOfInput == [][C11_Step]_vars

(* rounds were played, the all-zero line was sent, and the input ended    *)
(* where the guess line was expected                                      *)
C11_Witness ==
  /\ pc = "end"
  /\ last_input = "eof"
  /\ num_rounds > 0
  /\ Len(moves) = num_cases
  /\ EveryMoveZero(moves)
  /\ guesses = <<>>
  /\ outcome = "error"
  /\ message = INVALID_LINE_ERROR

----------------------------------------------------------------------------
(* C12: ReadValues(line, k) called on its own.  When the line does not     *)
(* hold k tokens the call fails with the token-count error of k and the number  *)
(* of tokens found, also when some token is no integer; when it holds k    *)
(* tokens that are all integer literals the call returns their k values    *)
(* in order; when it holds k tokens of which some is no integer the call   *)
(* fails with the not-an-integer error of the first such token, cut to     *)
(* its first 100 characters.                                               *)
FirstNonInteger(t) ==
  t[CHOOSE p \in 1..Len(t) :
      /\ ~IsIntLiteral(t[p])
      /\ \A q \in 1..(p - 1) : IsIntLiteral(t[q])]

First100(s) == [p \in 1..(IF Len(s) < 100 THEN Len(s) ELSE 100) |-> s[p]]

C12_ReadValues ==
  pc = "tested" =>
    LET k == test_num_tokens
        t == SplitTable[test_line]
    IN  IF Len(t) # k
        THEN /\ outcome = "error"
             /\ message = WRONG_NUM_TOKENS_ERROR(k, Len(t))
        ELSE IF \A p \in 1..k : IsIntLiteral(t[p])
        THEN /\ outcome = "returned"
             /\ message = NoMessage
             /\ moves = [p \in 1..k |-> IntValue(t[p])]
        ELSE /\ outcome = "error"
             /\ message = NOT_INTEGER_ERROR(First100(FirstNonInteger(t)))

(* a line of two tokens, an integer and then a token of 101 characters,    *)
(* read for two tokens, is rejected with the first 100 characters of the   *)
(* second token                                                            *)
C12_Witness ==
  /\ pc = "tested"
  /\ test_num_tokens = 2
  /\ Len(SplitTable[test_line]) = 2
  /\ Len(test_line) > 100
  /\ message = NOT_INTEGER_ERROR([p \in 1..100 |-> "a"])

----------------------------------------------------------------------------
(* C13: the first line put out is the header "case_count N threshold",     *)
(* and it is put out before any input is read.  Each step that reads       *)
(* input puts out one line when it answers a round, and that line is the   *)
(* case_count results, each 0 or 1, in case order with single spaces       *)
(* between them; it puts out nothing for the all-zero line, the guess      *)
(* line, the line after it, or a line that is rejected.  Whenever a round  *)
(* line is about to be read, every round before it has its result line.   *)
HeaderText ==
  Str(num_cases) \o <<" ">> \o Str(n) \o <<" ">> \o Str(need_correct)

IsResultLine(text, res) ==
  /\ Len(res) = num_cases
  /\ Len(text) = 2 * num_cases - 1
  /\ \A c \in Cases :
       /\ res[c] \in {0, 1}
       /\ text[2 * c - 1] = (IF res[c] = 1 THEN "1" ELSE "0")
  /\ \A c \in 1..(num_cases - 1) : text[2 * c] = " "

C13_HeaderFirst ==
  /\ (num_output = 0 => num_reads = 0 /\ output = <<>>)
  /\ (num_output = 1 => output = HeaderText)
  /\ (pc = "playing" => num_output = num_reads + 1)

C13_Step ==
  /\ (num_output = 0 /\ num_output' # 0) =>
        num_output' = 1 /\ output' = HeaderText /\ num_reads' = 0
  /\ (num_reads' # num_reads) =>
        IF RoundAnswered
        THEN /\ num_output' = num_output + 1
             /\ IsResultLine(output', results')
        ELSE /\ num_output' = num_output
             /\ output' = output

C13_OutputLines == [] C13_HeaderFirst /\ [][C13_Step]_vars

(* one round of two cases was answered "0 1" and the all-zero line that    *)
(* followed was given no result line                                       *)
C13_Witness ==
  /\ pc = "done"
  /\ num_cases = 2
  /\ num_rounds = 1
  /\ num_reads = 2
  /\ num_output = 2
  /\ output = <<"0", " ", "1">>

----------------------------------------------------------------------------
(* C14: what main signals depends on how the run ended.  After an Error    *)
(* of RunCases, and after any other exception raised inside main's try,    *)
(* main has written the line -1 exactly once and the process has ended     *)
(* with a non-zero status; after a WrongAnswer the process has ended with  *)
(* a non-zero status and no -1 was written; after RunCases returned no -1  *)
(* was written and the status is 0; while the run goes on nothing of this  *)
(* has happened.                                                           *)
C14_Signalling ==
  /\ outcome \in {"", "error", "judge_error", "wrong_answer", "success"}
  /\ outcome = "" => sentinel = <<>> /\ exit_status = <<>>
  /\ outcome \in {"error", "judge_error"} =>
       /\ sentinel = << <<"-", "1">> >>
       /\ Len(exit_status) = 1
       /\ exit_status[1] # 0
  /\ outcome = "wrong_answer" =>
       /\ sentinel = <<>>
       /\ Len(exit_status) = 1
       /\ exit_status[1] # 0
  /\ outcome = "success" =>
       /\ sentinel = <<>>
       /\ exit_status = <<0>>

(* a run that answered rounds and then failed the threshold: the process   *)
(* has ended with status 1 and without the line -1                         *)
C14_Witness ==
  /\ outcome = "wrong_answer"
  /\ num_output > 1
  /\ sentinel = <<>>
  /\ exit_status = <<1>>

----------------------------------------------------------------------------
(* C15: RunCases is deterministic given the seed.  A second call with the  *)
(* same case count, N, threshold and seed and the same list of lines ends  *)
(* with the same lines written, the same outcome and the same message, and *)
(* has the same hidden state once initialized.  The counter of the         *)
(* generator starts at the seed; each Next() adds 1 to it; it is drawn N   *)
(* times for each case, in case order and without a reset, which leaves it *)
(* at seed + case_count * N; no line is read before that, and afterwards   *)
(* no step draws again or changes the hidden state.                        *)
C15_SameAsFirstCall ==
  /\ (call = 2 /\ pc = "end") =>
       /\ test_output_storage = first_call.output
       /\ outcome = first_call.outcome
       /\ message = first_call.message
  /\ (call = 2 /\ Initialized) => initial = first_call.hidden

C15_Counter ==
  /\ pc = "start" => num_reads = 0
  /\ pc = "shuffle" =>
       /\ counter = seed + i * n + j
       /\ num_reads = 0
       /\ \A c \in 1..num_cases :
            Len(draws[c]) = IF c <= i THEN n ELSE IF c = i + 1 THEN j ELSE 0
  /\ Initialized =>
       /\ counter = seed + num_cases * n
       /\ \A c \in 1..num_cases : Len(draws[c]) = n

C15_Step ==
  /\ pc = "start" /\ pc' = "shuffle" => counter' = seed
  /\ pc = "shuffle" =>
       /\ counter' = counter + 1
       /\ Len(draws'[i + 1]) = Len(draws[i + 1]) + 1
       /\ \A c \in 1..num_cases : c # i + 1 => draws'[c] = draws[c]
  /\ (Initialized /\ Initialized') =>
       /\ counter' = counter
       /\ draws' = draws
       /\ initial' = initial
       /\ digest' = digest

----------------------------------------------------------------------------
(* The guess lines of 2 * case_count integers with a value below 1 or      *)
(* above N.                                                                *)
GuessValueOutOfBounds(v) == v < 1 \/ v > n

HasOutOfBoundsGuess(g) ==
  /\ Len(g) = 2 * num_cases
  /\ \E p \in 1..Len(g) : GuessValueOutOfBounds(g[p])

FirstOutOfBoundsGuess(g) ==
  CHOOSE p \in 1..Len(g) :
    /\ GuessValueOutOfBounds(g[p])
    /\ \A q \in 1..(p - 1) : ~GuessValueOutOfBounds(g[q])

(* C16 as claimed: a guess line of 2 * case_count integers with a value    *)
(* below 1 or above N ends the run with the out-of-bounds error that       *)
(* reports an offending value of the line, whatever the other pairs are.   *)
C16_AlwaysOutOfBounds ==
  HasOutOfBoundsGuess(guesses) =>
    /\ pc = "end"
    /\ outcome = "error"
    /\ message.name = "OUT_OF_BOUNDS_ERROR"
    /\ \E p \in 1..Len(guesses) :
         /\ GuessValueOutOfBounds(guesses[p])
         /\ message = OUT_OF_BOUNDS_ERROR(Str(guesses[p]))

(* C16 as amended: such a line ends the run with a protocol error: the     *)
(* same-pen error when a case before the case of the first out-of-bounds   *)
(* value names one pen twice, and otherwise the out-of-bounds error that   *)
(* reports the first out-of-bounds value of the line.                      *)
C16_FirstFaultReported ==
  HasOutOfBoundsGuess(guesses) =>
    /\ pc = "end"
    /\ outcome = "error"
    /\ LET p == FirstOutOfBoundsGuess(guesses)
           c == (p + 1) \div 2
       IN  IF \E d \in 1..(c - 1) : guesses[2 * d - 1] = guesses[2 * d]
           THEN message = SAME_PEN_TWICE_ERROR
           ELSE message = OUT_OF_BOUNDS_ERROR(Str(guesses[p]))

(* the first case is guessed with two pens in bounds, the second case      *)
(* names pen 9: the error reports 9                                        *)
C16_Witness ==
  /\ num_cases = 2
  /\ n = 2
  /\ guesses = <<1, 2, 1, 9>>
  /\ outcome = "error"
  /\ message = OUT_OF_BOUNDS_ERROR(<<"9">>)

----------------------------------------------------------------------------
(* C17: once the cases are shuffled, the pens change only in a step that   *)
(* answers a round.  A round line that is rejected, for its token count,   *)
(* a token that is no integer, a move out of bounds at any position or     *)
(* the round budget, leaves every pen of every case as it was; so do the   *)
(* all-zero line, the guess line with its scoring, the read after it, and  *)
(* an end of input or a failed read anywhere.                              *)
C17_Step ==
  Initialized =>
    /\ (remaining' # remaining => RoundAnswered)
    /\ (pc = "playing" /\ pc' = "end" =>
          /\ remaining' = remaining
          /\ message'.name \in {"WRONG_NUM_TOKENS_ERROR", "NOT_INTEGER_ERROR",
                                "OUT_OF_BOUNDS_ERROR", "TOO_MANY_ROUNDS_ERROR",
                                "INVALID_LINE_ERROR"})
    /\ (pc = "playing" /\ pc' = "done" => remaining' = remaining)
    /\ (pc \in {"done", "extra", "end"} => remaining' = remaining)

C17_OnlyRoundsMutate == [][C17_Step]_vars

(* the round budget is used up and the line rejected for it named a pen    *)
(* that still holds ink                                                    *)
C17_Witness ==
  /\ pc = "end"
  /\ message = TOO_MANY_ROUNDS_ERROR
  /\ \E c \in Cases : moves[c] # 0 /\ remaining[c][moves[c]] > 0

----------------------------------------------------------------------------
(* C18: ink is conserved in every case.  Once the cases are shuffled, the  *)
(* ink left in a case is N*(N-1)/2 less the number of results 1 the case   *)
(* was given, so a case is given at most N*(N-1)/2 results 1; an answered  *)
(* round takes from the ink of a case exactly the result that case was     *)
(* given, whatever the moves of the other cases are.                       *)
RECURSIVE SumUpTo(_, _)
SumUpTo(arr, q) == IF q = 0 THEN 0 ELSE arr[q] + SumUpTo(arr, q - 1)

InkLeft(c) == SumUpTo(remaining[c], Len(remaining[c]))

TotalInk == (n * (n - 1)) \div 2

C18_Conserved ==
  Initialized =>
    \A c \in Cases :
      /\ ones[c] \in 0..TotalInk
      /\ InkLeft(c) = TotalInk - ones[c]

C18_Step ==
  Initialized =>
    /\ \A c \in Cases :
         ones'[c] = ones[c] + (IF RoundAnswered /\ results'[c] = 1 THEN 1 ELSE 0)
    /\ \A c \in Cases :
         InkLeft(c)' = InkLeft(c) - (IF RoundAnswered THEN results'[c] ELSE 0)
    /\ \A c \in Cases :
         (RoundAnswered /\ moves'[c] = 0) => remaining'[c] = remaining[c]

C18_InkConservation == [] C18_Conserved /\ [][C18_Step]_vars

(* two cases of two pens: the first case has been given its one unit of    *)
(* ink, the second case has not been written in                            *)
C18_Witness ==
  /\ pc = "playing"
  /\ num_cases = 2
  /\ n = 2
  /\ num_rounds > 1
  /\ ones = <<1, 0>>
  /\ InkLeft(1) = 0
  /\ remaining[2] = initial[2]

----------------------------------------------------------------------------
(* C19: when no read waits for ever, every run of RunCases ends, in        *)
(* success, a protocol error or a verdict failure.  The round loop makes   *)
(* at most N*(N+1)/2 + 1 reads, at most N*(N+1)/2 result lines are put     *)
(* out after the header, and after the all-zero line at most two more      *)
(* reads are made: the guess line and the read after it.                   *)
Terminal ==
  pc = "end" /\ outcome \in {"success", "error", "wrong_answer"}

C19_Bounded ==
  /\ (pc = "playing" => num_reads = num_rounds /\ num_reads <= Budget)
  /\ (pc = "done" => num_reads = num_rounds + 1 /\ num_reads <= Budget + 1)
  /\ (pc = "extra" => num_reads = num_rounds + 2)
  /\ num_reads <= Budget + 3
  /\ num_output <= Budget + 1
  /\ (pc = "end" => Terminal)

C19_Step ==
  /\ (pc = "playing" => num_reads' <= Budget + 1)
  /\ (pc = "done" =>
        pc' \in {"extra", "end"} /\ num_reads' = num_reads + 1)
  /\ (pc = "extra" => pc' = "end" /\ num_reads' = num_reads + 1)
  /\ (pc = "end" => num_reads' = num_reads)

C19_Terminates ==
  /\ (IndexInRange(index) => <>Terminal)
  /\ [] C19_Bounded
  /\ [][C19_Step]_vars

(* a run of N = 3 that made all the reads it may make: 7 in the round      *)
(* loop, the guess line and the read after it, and was given 6 result      *)
(* lines                                                                   *)
C19_Witness ==
  /\ Terminal
  /\ n = 3
  /\ num_rounds = Budget
  /\ num_reads = Budget + 3
  /\ num_output = Budget + 1
  /\ outcome = "wrong_answer"

----------------------------------------------------------------------------
(* C20: Shuffle takes the draw tuples to the arrangements one to one.      *)
(* The draws of a case are N values k_0 .. k_(N-1) with k_j in 0..j, the   *)
(* case is arranged as Shuffle arranges 0..N-1 with those draws, no other  *)
(* draw tuple gives that arrangement, and the draw tuples together give    *)
(* every one of the N! arrangements of 0..N-1.                             *)
DrawTuples(m) ==
  { d \in [1..m -> 0..(m - 1)] : \A p \in 1..m : d[p] <= p - 1 }

Arrangements(m) ==
  { a \in [1..m -> 0..(m - 1)] :
      \A p \in 1..m : \A q \in 1..m : a[p] = a[q] => p = q }

RECURSIVE Factorial(_)
Factorial(m) == IF m = 0 THEN 1 ELSE m * Factorial(m - 1)

Arranged(d) == ShuffleWith(Range0(Len(d)), d, 0)

C20_ShuffleBijection ==
  (pc = "playing" /\ num_reads = 0) =>
    /\ Cardinality(DrawTuples(n)) = Factorial(n)
    /\ { Arranged(d) : d \in DrawTuples(n) } = Arrangements(n)
    /\ \A c \in Cases :
         /\ draws[c] \in DrawTuples(n)
         /\ initial[c] = Arranged(draws[c])
         /\ \A d \in DrawTuples(n) : Arranged(d) = initial[c] => d = draws[c]

(* the arrangement 2 1 0 of TestRunCases and the one draw tuple that       *)
(* gives it                                                                *)
C20_Witness ==
  /\ pc = "playing"
  /\ num_reads = 0
  /\ n = 3
  /\ initial[1] = <<2, 1, 0>>
  /\ draws[1] = <<0, 1, 0>>

====
